---- MODULE Spec2Model ----
(***************************************************************************)
(* Kyero V3 -> ImmoScout24 transformer: the Mapper (transformer.py), the   *)
(* Schema Builder (utils.py) and the orchestrator loop (main.py).          *)
(*                                                                         *)
(* Python values are tagged records (None, StrV, FloatV, IntV, BoolV); a       *)
(* string is the sequence of its characters, so that strip, lower,         *)
(* capitalize, split, float() and int() are computed as Python computes    *)
(* them.  A float is held in hundredths (120.5 is 12050).                  *)
(***************************************************************************)
EXTENDS Integers, Sequences, FiniteSets, TLC

VARIABLES
    doc,          \* the <property> elements of the input document, in order
    idx,          \* transformar_xml: position of the loop over root.findall('property')
    properties,   \* transformar_xml: the list being built, then the returned list
    mpc,          \* "mapping" | "returned"
    i,            \* main: position of the loop over properties
    generated_properties,
    sent_properties,
    files,        \* the output directory: for each externalId, the document its file holds
    written,      \* history: the positions of the loop of main whose file was written
    log,          \* main: per processed position, what happened to it
    xml,          \* main: the document of the listing being processed (or NoDoc)
    opc,          \* "wait" | "build" | "validate" | "send" | "done"
    origin,       \* history: for each entry of properties, its position in doc
    mapping,      \* dict_a_xml called on its own: the mapping passed
    outcome,      \* dict_a_xml called on its own: Pending, then what it gave
    call,         \* a function called on its own: its name and arguments
    result        \* a function called on its own: Pending, then what it gave

vars == <<doc, idx, properties, mpc, i, generated_properties, sent_properties,
          files, written, log, xml, opc, origin, mapping, outcome, call, result>>

(***************************************************************************)
(* Bounds of the model.                                                    *)
(***************************************************************************)
MaxListings == 2

MaxParas == 3

MaxText == 6

(***************************************************************************)
(* Python values.                                                          *)
(***************************************************************************)
None == [k |-> "None"]

StrV(s) == [k |-> "str", v |-> s]

FloatV(n) == [k |-> "float", v |-> n]

IntV(n) == [k |-> "int", v |-> n]

BoolV(b) == [k |-> "bool", v |-> b]

\* Python truthiness: None, '', 0, 0.0 and False are falsy.
Truthy(x) ==
    CASE x.k = "None"  -> FALSE
      [] x.k = "str"   -> Len(x.v) > 0
      [] x.k = "float" -> x.v # 0
      [] x.k = "int"   -> x.v # 0
      [] x.k = "bool"  -> x.v
      [] OTHER         -> TRUE

\* dict.get(key, default) and dict.get(key)
Get(d, key, default) == IF key \in DOMAIN d THEN d[key] ELSE default

GetN(d, key) == Get(d, key, None)

(***************************************************************************)
(* Strings.                                                                *)
(***************************************************************************)
LowerCase == <<"a","b","c","d","e","f","g","h","i","j","k","l","m","n","o","p","q","r","s","t","u","v","w","x","y","z","a-acute">>

UpperCase == <<"A","B","C","D","E","F","G","H","I","J","K","L","M","N","O","P","Q","R","S","T","U","V","W","X","Y","Z","A-acute">>

Digits == <<"0","1","2","3","4","5","6","7","8","9">>

\* str.isspace(): the no-break space of &nbsp; is whitespace too
IsSpace(c) == c \in {" ", "\n", "\t", "\r", "nbsp"}

IsDigit(c) == \E n \in 1..10 : Digits[n] = c

DigitVal(c) == (CHOOSE n \in 1..10 : Digits[n] = c) - 1

LowerCh(c) ==
    IF \E n \in 1..Len(UpperCase) : UpperCase[n] = c
    THEN LowerCase[CHOOSE n \in 1..Len(UpperCase) : UpperCase[n] = c]
    ELSE c

UpperCh(c) ==
    IF \E n \in 1..Len(LowerCase) : LowerCase[n] = c
    THEN UpperCase[CHOOSE n \in 1..Len(LowerCase) : LowerCase[n] = c]
    ELSE c

SetMin(S) == CHOOSE x \in S : \A y \in S : x <= y

SetMax(S) == CHOOSE x \in S : \A y \in S : x >= y

\* str.lower()
str_lower(s) == [n \in 1..Len(s) |-> LowerCh(s[n])]

\* str.strip()
str_strip(s) ==
    LET keep == {n \in 1..Len(s) : ~IsSpace(s[n])}
    IN  IF keep = {} THEN <<>> ELSE SubSeq(s, SetMin(keep), SetMax(keep))

\* str.capitalize(): the first character upper-cased, the rest lower-cased
str_capitalize(s) ==
    [n \in 1..Len(s) |-> IF n = 1 THEN UpperCh(s[n]) ELSE LowerCh(s[n])]

\* ' ' in s
HasSpace(s) == \E n \in 1..Len(s) : s[n] = " "

\* a split that keeps everything before the last space
C14_split_at_last_space(s) ==
    IF HasSpace(s)
    THEN SubSeq(s, 1, SetMax({n \in 1..Len(s) : s[n] = " "}) - 1)
    ELSE s

\* s.split(' ')[0]
split_space_first(s) ==
    IF HasSpace(s)
    THEN SubSeq(s, 1, SetMin({n \in 1..Len(s) : s[n] = " "}) - 1)
    ELSE s

RECURSIVE DigitsVal(_)
DigitsVal(s) == IF s = <<>> THEN 0 ELSE 10 * DigitsVal(SubSeq(s, 1, Len(s) - 1)) + DigitVal(s[Len(s)])

AllDigits(s) == \A n \in 1..Len(s) : IsDigit(s[n])

Unsigned(s) == IF s # <<>> /\ s[1] \in {"+", "-"} THEN Tail(s) ELSE s

Sign(s) == IF s # <<>> /\ s[1] = "-" THEN -1 ELSE 1

\* int(s) of a string: surrounding whitespace and a sign are accepted, then
\* decimal digits only; anything else is a ValueError.
IntParses(s) == LET u == Unsigned(str_strip(s)) IN u # <<>> /\ AllDigits(u)

IntValue(s) == LET t == str_strip(s) IN Sign(t) * DigitsVal(Unsigned(t))

\* float(s) of a string, in hundredths: whitespace, sign, digits with at most
\* one '.' and (in this model) at most two fractional digits; anything else
\* is a ValueError.
DotAt(u) == {n \in 1..Len(u) : u[n] = "."}

FloatParses(s) ==
    LET u == Unsigned(str_strip(s))
    IN  /\ u # <<>>
        /\ \A n \in 1..Len(u) : IsDigit(u[n]) \/ u[n] = "."
        /\ Cardinality(DotAt(u)) <= 1
        /\ \E n \in 1..Len(u) : IsDigit(u[n])
        /\ \A d \in DotAt(u) : Len(u) - d <= 2

FloatValue(s) ==
    LET t  == str_strip(s)
        u  == Unsigned(t)
        d  == IF DotAt(u) = {} THEN Len(u) + 1 ELSE SetMin(DotAt(u))
        ip == SubSeq(u, 1, d - 1)
        fp == SubSeq(u, d + 1, Len(u))
        fr == IF Len(fp) = 0 THEN 0
              ELSE IF Len(fp) = 1 THEN 10 * DigitsVal(fp)
              ELSE DigitsVal(fp)
    IN  Sign(t) * (100 * DigitsVal(ip) + fr)

\* float(x): raises on None (TypeError) and on a string that is no number
\* (ValueError); an int or a float converts.
float_raises(x) ==
    CASE x.k = "None" -> TRUE
      [] x.k = "str"  -> ~FloatParses(x.v)
      [] OTHER        -> FALSE

float_of(x) ==
    CASE x.k = "str"   -> FloatV(FloatValue(x.v))
      [] x.k = "int"   -> FloatV(100 * x.v)
      [] x.k = "bool"  -> FloatV(IF x.v THEN 100 ELSE 0)
      [] OTHER         -> x

\* int(x): TypeError on None, ValueError on a string that is no integer;
\* a float is truncated toward zero.
int_raises(x) ==
    CASE x.k = "None" -> TRUE
      [] x.k = "str"  -> ~IntParses(x.v)
      [] OTHER        -> FALSE

int_of(x) ==
    CASE x.k = "str"   -> IntValue(x.v)
      [] x.k = "float" -> IF x.v >= 0 THEN x.v \div 100 ELSE -((-x.v) \div 100)
      [] x.k = "bool"  -> IF x.v THEN 1 ELSE 0
      [] OTHER         -> x.v

RECURSIVE NatStr(_)
NatStr(n) == IF n < 10 THEN <<Digits[n + 1]>> ELSE NatStr(n \div 10) \o <<Digits[(n % 10) + 1]>>

\* str(n) of an int
int_str(n) == IF n < 0 THEN <<"-">> \o NatStr(-n) ELSE NatStr(n)

\* f"{x:.1f}": one decimal, the second cut off
C17_format_1f(h) ==
    LET a == IF h < 0 THEN -h ELSE h
    IN  (IF h < 0 THEN <<"-">> ELSE <<>>) \o NatStr(a \div 100) \o <<".">>
        \o <<Digits[((a % 100) \div 10) + 1]>>

\* f"{x:.2f}" of a number held in hundredths
format_2f(h) ==
    LET a == IF h < 0 THEN -h ELSE h
    IN  (IF h < 0 THEN <<"-">> ELSE <<>>) \o NatStr(a \div 100) \o <<".">>
        \o <<Digits[((a % 100) \div 10) + 1], Digits[(a % 10) + 1]>>

\* str(x) of a float held in hundredths: the shortest repr, at least one
\* fractional digit (450000.0, 120.5, 120.25)
float_str(h) ==
    LET a == IF h < 0 THEN -h ELSE h
        f == a % 100
    IN  (IF h < 0 THEN <<"-">> ELSE <<>>) \o NatStr(a \div 100) \o <<".">>
        \o (IF f % 10 = 0 THEN <<Digits[(f \div 10) + 1]>>
            ELSE <<Digits[(f \div 10) + 1], Digits[(f % 10) + 1]>>)

(***************************************************************************)
(* String literals of the source.                                          *)
(***************************************************************************)
houseBuy == <<"h","o","u","s","e","B","u","y">>

apartmentBuy == <<"a","p","a","r","t","m","e","n","t","B","u","y">>

livingBuySite == <<"l","i","v","i","n","g","B","u","y","S","i","t","e">>

tradeSite == <<"t","r","a","d","e","S","i","t","e">>

NO_INFORMATION == <<"N","O","_","I","N","F","O","R","M","A","T","I","O","N">>

BUY == <<"B","U","Y">>

LEASE == <<"L","E","A","S","E">>

LEISURE == <<"L","E","I","S","U","R","E">>

AGRICULTURE_FORESTRY == <<"A","G","R","I","C","U","L","T","U","R","E","_","F","O","R","E","S","T","R","Y">>

YES == <<"Y","E","S">>

NO == <<"N","O">>

NOT_APPLICABLE == <<"N","O","T","_","A","P","P","L","I","C","A","B","L","E">>

ESP == <<"E","S","P">>

EUR == <<"E","U","R">>

PURCHASE == <<"P","U","R","C","H","A","S","E">>

Unknown == <<"U","n","k","n","o","w","n">>

DefaultPostcode == <<"2","9","0","0","0">>

TrueText == <<"t","r","u","e">>

FalseText == <<"f","a","l","s","e">>

NoDescription == <<"N","o"," ","d","e","s","c","r","i","p","t","i","o","n"," ","p","r","o","v","i","d","e","d">>

InText == <<" ","i","n"," ">>

StreetIn == <<"S","t","r","e","e","t"," ","i","n"," ">>

ColonSpace == <<":"," ">>

Desconocido == <<"d","e","s","c","o","n","o","c","i","d","o">>

Zero == <<"0">>

(***************************************************************************)
(* Lookup tables of transformer.py and the value sets of utils.py.         *)
(***************************************************************************)
TYPE_MAPPING ==
    (<<"v","i","l","l","a">> :> <<"h","o","u","s","e","B","u","y">>)
 @@ (<<"a","p","a","r","t","m","e","n","t">> :> <<"a","p","a","r","t","m","e","n","t","B","u","y">>)
 @@ (<<"l","a","n","d">> :> <<"l","i","v","i","n","g","B","u","y","S","i","t","e">>)
 @@ (<<"p","e","n","t","h","o","u","s","e">> :> <<"a","p","a","r","t","m","e","n","t","B","u","y">>)
 @@ (<<"t","o","w","n","h","o","u","s","e">> :> <<"h","o","u","s","e","B","u","y">>)
 @@ (<<"c","o","u","n","t","r","y"," ","h","o","u","s","e">> :> <<"h","o","u","s","e","B","u","y">>)
 @@ (<<"r","e","s","i","d","e","n","t","i","a","l"," ","h","o","m","e">> :> <<"h","o","u","s","e","B","u","y">>)
 @@ (<<"s","t","u","d","i","o">> :> <<"a","p","a","r","t","m","e","n","t","B","u","y">>)
 @@ (<<"c","o","m","m","e","r","c","i","a","l"," ","p","r","e","m","i","s","e","s">> :> <<"t","r","a","d","e","S","i","t","e">>)
 @@ (<<"s","h","o","p">> :> <<"t","r","a","d","e","S","i","t","e">>)
 @@ (<<"r","e","s","t","a","u","r","a","n","t">> :> <<"t","r","a","d","e","S","i","t","e">>)
 @@ (<<"b","a","r">> :> <<"t","r","a","d","e","S","i","t","e">>)
 @@ (<<"a","p","a","r","t","h","o","t","e","l">> :> <<"t","r","a","d","e","S","i","t","e">>)
 @@ (<<"h","o","s","t","e","l">> :> <<"t","r","a","d","e","S","i","t","e">>)
 @@ (<<"o","f","f","i","c","e">> :> <<"t","r","a","d","e","S","i","t","e">>)
 @@ (<<"a","p","a","r","t","m","e","n","t"," ","c","o","m","p","l","e","x">> :> <<"t","r","a","d","e","S","i","t","e">>)
 @@ (<<"c","a","r"," ","p","a","r","k">> :> <<"t","r","a","d","e","S","i","t","e">>)
 @@ (<<"f","a","r","m">> :> <<"l","i","v","i","n","g","B","u","y","S","i","t","e">>)
 @@ (<<"C","o","m","m","e","r","c","i","a","l">> :> <<"t","r","a","d","e","S","i","t","e">>)
 @@ (<<"s","t","o","r","a","g","e">> :> <<"t","r","a","d","e","S","i","t","e">>)
 @@ (<<"w","a","r","e","h","o","u","s","e">> :> <<"t","r","a","d","e","S","i","t","e">>)
 @@ (<<"r","u","i","n">> :> <<"h","o","u","s","e","B","u","y">>)
 @@ (<<"e","q","u","e","s","t","r","i","a","n"," ","f","a","c","i","l","i","t","y">> :> <<"t","r","a","d","e","S","i","t","e">>)
 @@ (<<"r","e","t","a","i","l"," ","p","r","o","p","e","r","t","y">> :> <<"t","r","a","d","e","S","i","t","e">>)
 @@ (<<"m","a","r","i","n","e"," ","p","r","o","p","e","r","t","y">> :> <<"t","r","a","d","e","S","i","t","e">>)
 @@ (<<"n","i","g","h","t","c","l","u","b">> :> <<"t","r","a","d","e","S","i","t","e">>)
 @@ (<<"b","e","d"," ","a","n","d"," ","b","r","e","a","k","f","a","s","t">> :> <<"t","r","a","d","e","S","i","t","e">>)
 @@ (<<"g","u","e","s","t"," ","h","o","u","s","e">> :> <<"t","r","a","d","e","S","i","t","e">>)

BUILD_MAPPING ==
    (<<"v","i","l","l","a">> :> <<"V","I","L","L","A">>)
 @@ (<<"p","e","n","t","h","o","u","s","e">> :> <<"A","P","A","R","T","M","E","N","T">>)
 @@ (<<"t","o","w","n","h","o","u","s","e">> :> <<"S","I","N","G","L","E","_","F","A","M","I","L","Y","_","H","O","U","S","E">>)
 @@ (<<"c","o","u","n","t","r","y"," ","h","o","u","s","e">> :> <<"S","I","N","G","L","E","_","F","A","M","I","L","Y","_","H","O","U","S","E">>)
 @@ (<<"r","e","s","i","d","e","n","t","i","a","l"," ","h","o","m","e">> :> <<"N","O","_","I","N","F","O","R","M","A","T","I","O","N">>)
 @@ (<<"a","p","a","r","t","m","e","n","t">> :> <<"A","P","A","R","T","M","E","N","T">>)
 @@ (<<"s","t","u","d","i","o">> :> <<"S","T","U","D","I","O">>)
 @@ (<<"r","u","i","n">> :> <<"N","O","_","I","N","F","O","R","M","A","T","I","O","N">>)

RECOMMENDED_USE_MAPPING ==
    (<<"c","o","m","m","e","r","c","i","a","l"," ","p","r","e","m","i","s","e","s">> :> <<"R","E","T","A","I","L">>)
 @@ (<<"s","h","o","p">> :> <<"R","E","T","A","I","L">>)
 @@ (<<"r","e","t","a","i","l"," ","p","r","o","p","e","r","t","y">> :> <<"R","E","T","A","I","L">>)
 @@ (<<"C","o","m","m","e","r","c","i","a","l">> :> <<"R","E","T","A","I","L">>)
 @@ (<<"s","t","o","r","a","g","e">> :> <<"R","E","T","A","I","L">>)
 @@ (<<"w","a","r","e","h","o","u","s","e">> :> <<"R","E","T","A","I","L">>)
 @@ (<<"r","e","s","t","a","u","r","a","n","t">> :> <<"G","A","S","T","R","O","N","O","M","Y">>)
 @@ (<<"b","a","r">> :> <<"G","A","S","T","R","O","N","O","M","Y">>)
 @@ (<<"a","p","a","r","t","h","o","t","e","l">> :> <<"G","A","S","T","R","O","N","O","M","Y">>)
 @@ (<<"h","o","s","t","e","l">> :> <<"G","A","S","T","R","O","N","O","M","Y">>)
 @@ (<<"n","i","g","h","t","c","l","u","b">> :> <<"G","A","S","T","R","O","N","O","M","Y">>)
 @@ (<<"b","e","d"," ","a","n","d"," ","b","r","e","a","k","f","a","s","t">> :> <<"G","A","S","T","R","O","N","O","M","Y">>)
 @@ (<<"g","u","e","s","t"," ","h","o","u","s","e">> :> <<"G","A","S","T","R","O","N","O","M","Y">>)
 @@ (<<"o","f","f","i","c","e">> :> <<"O","F","F","I","C","E">>)
 @@ (<<"a","p","a","r","t","m","e","n","t"," ","c","o","m","p","l","e","x">> :> <<"O","T","H","E","R">>)
 @@ (<<"c","a","r"," ","p","a","r","k">> :> <<"O","T","H","E","R">>)
 @@ (<<"e","q","u","e","s","t","r","i","a","n"," ","f","a","c","i","l","i","t","y">> :> <<"O","T","H","E","R">>)
 @@ (<<"m","a","r","i","n","e"," ","p","r","o","p","e","r","t","y">> :> <<"O","T","H","E","R">>)

REGION_MAPPING ==
    (<<"M","a-acute","l","a","g","a">> :> <<"A","n","d","a","l","u","s","i","e","n">>)
 @@ (<<"C","a-acute","d","i","z">> :> <<"A","n","d","a","l","u","s","i","e","n">>)
 @@ (<<"M","a","l","a","g","a">> :> <<"A","n","d","a","l","u","s","i","e","n">>)
 @@ (<<"C","a","d","i","z">> :> <<"A","n","d","a","l","u","s","i","e","n">>)

\* TYPE_MAPPING.values()
TYPE_MAPPING_values == {TYPE_MAPPING[key] : key \in DOMAIN TYPE_MAPPING}

SUPPORTED_PROPERTY_TYPES == {houseBuy, apartmentBuy, livingBuySite, tradeSite}

VALID_LISTED_ONLY_VALUES == {YES, NO, NOT_APPLICABLE}

VALID_UTILIZATION_TRADE_TYPES == {AGRICULTURE_FORESTRY, LEISURE, NO_INFORMATION}

VALID_COMMERCIALIZATION_TYPES == {BUY, LEASE}

\* table.get(key, default)
Lookup(table, key, default) == IF key \in DOMAIN table THEN table[key] ELSE default

(***************************************************************************)
(* utils.clean_description                                                 *)
(***************************************************************************)
\* html.unescape: a character reference is one element of the sequence
ENTITIES == ("&amp;" :> "&") @@ ("&lt;" :> "<") @@ ("&gt;" :> ">") @@ ("&nbsp;" :> "nbsp") @@ ("&#13;" :> "\r")

html_unescape(s) == [n \in 1..Len(s) |-> IF s[n] \in DOMAIN ENTITIES THEN ENTITIES[s[n]] ELSE s[n]]

CRMarker == <<"&", "#", "1", "3", ";">>

\* text.replace('&#13;', '\n')
RECURSIVE replace_cr(_)
replace_cr(s) ==
    IF s = <<>> THEN <<>>
    ELSE IF Len(s) >= 5 /\ SubSeq(s, 1, 5) = CRMarker
         THEN <<"\n">> \o replace_cr(SubSeq(s, 6, Len(s)))
         ELSE <<s[1]>> \o replace_cr(Tail(s))

\* lxml_html.fromstring fails on a text with nothing to parse; the texts of
\* the model hold no markup, and the text content of such a fragment is the
\* text itself.
html_parse_fails(s) == str_strip(s) = <<>>

html_itertext(s) == s

\* re.sub(r'\n{2,}', '\n\n', text): of a run of newlines the first two stay
sub_newlines(s) ==
    LET keep == {n \in 1..Len(s) :
                    ~(n >= 3 /\ s[n] = "\n" /\ s[n-1] = "\n" /\ s[n-2] = "\n")}
        pos  == [m \in 1..Cardinality(keep) |->
                    CHOOSE n \in keep : Cardinality({q \in keep : q <= n}) = m]
    IN  [m \in 1..Cardinality(keep) |-> s[pos[m]]]

IsLineBreak(c) == c \in {"\n", "\r"}

\* str.splitlines(): no empty last line after a final line break; \r\n is one break
RECURSIVE splitlines(_)
splitlines(s) ==
    IF s = <<>> THEN <<>>
    ELSE LET brk == {n \in 1..Len(s) : IsLineBreak(s[n])}
         IN  IF brk = {} THEN <<s>>
             ELSE LET p == SetMin(brk)
                      q == IF s[p] = "\r" /\ p < Len(s) /\ s[p+1] = "\n" THEN p + 1 ELSE p
                  IN  <<SubSeq(s, 1, p - 1)>> \o splitlines(SubSeq(s, q + 1, Len(s)))

\* sep.join(parts)
RECURSIVE join(_, _)
join(sep, parts) ==
    IF parts = <<>> THEN <<>>
    ELSE IF Len(parts) = 1 THEN parts[1]
    ELSE parts[1] \o sep \o join(sep, Tail(parts))

clean_text(s) ==
    LET t1 == replace_cr(html_unescape(s))
        t2 == IF html_parse_fails(t1) THEN t1 ELSE html_itertext(t1)
        t3 == sub_newlines(t2)
        ls == splitlines(t3)
    IN  str_strip(join(<<"\n">>, [n \in 1..Len(ls) |-> str_strip(ls[n])]))

clean_description(text) ==
    IF ~Truthy(text) THEN StrV(NoDescription) ELSE StrV(clean_text(text.v))

(***************************************************************************)
(* transformer.transformar_xml: one pass of the loop over the listings.    *)
(* A listing is a record of its child elements: None for a missing child,  *)
(* StrV(text) for a child with text, Elem(...) for a sub-tree.             *)
(***************************************************************************)
\* prop.findtext(name) and prop.findtext(name, default)
findtext(e, name) == e[name]

findtextD(e, name, default) == IF e[name] = None THEN default ELSE e[name]

\* tipo_propiedad: None when the label is missing, empty or not a key
tipo_propiedad_of(prop) ==
    LET label == findtext(prop, "type")
    IN  IF Truthy(label)
        THEN (LET key == str_lower(str_strip(label.v))
              IN  IF key \in DOMAIN TYPE_MAPPING THEN StrV(TYPE_MAPPING[key]) ELSE None)
        ELSE None

\* the test of line 103: the listing is skipped
type_skipped(prop) ==
    LET tipo_propiedad == tipo_propiedad_of(prop)
    IN  IF ~Truthy(tipo_propiedad) THEN TRUE
        ELSE tipo_propiedad.v \notin TYPE_MAPPING_values

\* float(node.findtext(name, 0)) if node.findtext(name) else None
opt_float_raises(x) == Truthy(x) /\ float_raises(x)

opt_float(x) == IF Truthy(x) THEN float_of(x) ELSE None

\* float(prop.findtext('price', 0))
price_raises(prop) == float_raises(findtextD(prop, "price", IntV(0)))

price_value(prop) == float_of(findtextD(prop, "price", IntV(0)))

\* prop.findtext('town').capitalize() on a missing town (AttributeError)
town_raises(prop) == findtext(prop, "town") = None

\* the float() calls of the tradeSite branch (lines 183-191)
trade_raises(prop) ==
    /\ tipo_propiedad_of(prop) = StrV(tradeSite)
    /\ \/ opt_float_raises(findtext(prop, "min_divisible"))
       \/ opt_float_raises(findtext(prop, "grz"))
       \/ opt_float_raises(findtext(prop, "gfz"))

\* the float() calls on the surface-area sub-tree (lines 201-204)
area_raises(prop) ==
    LET surface_area == prop.surface_area
    IN  /\ surface_area # None
        /\ \/ opt_float_raises(findtext(surface_area, "built"))
           \/ opt_float_raises(findtext(surface_area, "plot"))
           \/ opt_float_raises(findtext(surface_area, "total"))
           \/ opt_float_raises(findtext(surface_area, "net"))

\* an exception escapes the extraction of this (supported) listing
extraction_raises(prop) ==
    town_raises(prop) \/ trade_raises(prop) \/ area_raises(prop) \/ price_raises(prop)

\* description_text of lines 158-159
description_text_of(prop) ==
    IF prop.desc # None THEN findtext(prop.desc, "en") ELSE findtext(prop, "description")

opt_clean(x) == IF Truthy(x) THEN clean_description(x) ELSE None

lower_is_true(x) == BoolV(str_lower(x.v) = TrueText)

\* the keys that depend on the resolved type (lines 172-196)
variant_keys(prop, tipo_propiedad) ==
    LET key == str_lower(str_strip(findtext(prop, "type").v))
        residential == tipo_propiedad \in {houseBuy, apartmentBuy}
    IN  (CASE tipo_propiedad = houseBuy ->
                ("buildingType" :> StrV(Lookup(BUILD_MAPPING, key, NO_INFORMATION)))
           [] tipo_propiedad = apartmentBuy ->
                ("apartmentType" :> StrV(Lookup(BUILD_MAPPING, key, NO_INFORMATION)))
           [] tipo_propiedad = livingBuySite ->
                ("commercializationType" :> StrV(BUY))
           [] OTHER ->
                ("commercializationType" :> findtextD(prop, "commercialization_type", StrV(BUY)))
             @@ ("utilizationTradeSite" :> findtextD(prop, "utilization_trade_site", StrV(LEISURE)))
             @@ ("recommendedUseTypes" :> StrV(Lookup(RECOMMENDED_USE_MAPPING, key, NO_INFORMATION)))
             @@ ("minDivisible" :> opt_float(findtext(prop, "min_divisible")))
             @@ ("grz" :> opt_float(findtext(prop, "grz")))
             @@ ("gfz" :> opt_float(findtext(prop, "gfz"))))
     @@ ("numberOfBedRooms" :> IF residential THEN findtext(prop, "beds") ELSE None)
     @@ ("numberOfBathRooms" :> IF residential THEN findtext(prop, "baths") ELSE None)

\* the areas (lines 199-209)
area_keys(prop) ==
    LET surface_area == prop.surface_area
    IN  IF surface_area # None
        THEN    ("livingSpace" :> opt_float(findtext(surface_area, "built")))
             @@ ("plotArea" :> opt_float(findtext(surface_area, "plot")))
             @@ ("totalFloorSpace" :> opt_float(findtext(surface_area, "total")))
             @@ ("netFloorSpace" :> opt_float(findtext(surface_area, "net")))
        ELSE    ("livingSpace" :> None)
             @@ ("plotArea" :> IntV(0))
             @@ ("totalFloorSpace" :> IntV(0))
             @@ ("netFloorSpace" :> IntV(0))

\* the description (lines 158-165)
description_note(prop, tipo) ==
    LET description_text == description_text_of(prop)
    IN  IF Truthy(description_text)
        THEN clean_description(StrV(str_capitalize(tipo) \o ColonSpace \o html_unescape(description_text.v)))
        ELSE clean_description(StrV(str_capitalize(tipo) \o ColonSpace \o NoDescription))

\* prop_dict of a supported listing whose extraction does not raise
prop_dict_of(prop) ==
    LET tipo_propiedad == tipo_propiedad_of(prop).v
        tipo     == str_capitalize(findtext(prop, "type").v)
        ciudad   == str_capitalize(findtext(prop, "town").v)
        location == prop.location
        pc       == findtextD(prop, "postcode", StrV(DefaultPostcode)).v
        province == findtext(prop, "province")
    IN     ("type" :> StrV(tipo_propiedad))
        @@ ("externalId" :> findtext(prop, "ref"))
        @@ ("title" :> StrV(str_strip(str_strip(tipo) \o InText \o str_strip(ciudad))))
        @@ ("street" :> StrV(str_strip(StreetIn \o str_strip(ciudad))))
        @@ ("houseNumber" :> findtextD(prop, "house_number", StrV(Zero)))
        @@ ("postcode" :> StrV(IF HasSpace(pc) THEN split_space_first(pc) ELSE pc))
        @@ ("city" :> findtext(prop, "town"))
        @@ ("country" :> StrV(ESP))
        @@ ("province" :> IF province # None /\ province.v \in DOMAIN REGION_MAPPING
                          THEN StrV(REGION_MAPPING[province.v])
                          ELSE findtextD(prop, "province", StrV(Unknown)))
        @@ ("latitude" :> IF location # None THEN findtext(location, "latitude") ELSE None)
        @@ ("longitude" :> IF location # None THEN findtext(location, "longitude") ELSE None)
        @@ ("showAddress" :> lower_is_true(findtextD(prop, "show_address", StrV(TrueText))))
        @@ ("descriptionNote" :> description_note(prop, tipo))
        @@ ("furnishingNote" :> opt_clean(findtext(prop, "furnishing_note")))
        @@ ("locationNote" :> opt_clean(findtext(prop, "location_note")))
        @@ ("otherNote" :> opt_clean(findtext(prop, "other_note")))
        @@ variant_keys(prop, tipo_propiedad)
        @@ area_keys(prop)
        @@ ("value" :> price_value(prop))
        @@ ("currency" :> findtextD(prop, "currency", StrV(EUR)))
        @@ ("marketingType" :> findtextD(prop, "marketing_type", StrV(PURCHASE)))
        @@ ("hasCourtage" :> StrV(NOT_APPLICABLE))
        @@ ("courtage" :> None)

(***************************************************************************)
(* utils.py: the Schema Builder.                                           *)
(*                                                                         *)
(* A long note is held by its paragraph structure: TextV(paras) is the     *)
(* text '\n\n'.join(paras), each paragraph a record of its position in the *)
(* cleaned description and its length in characters; len is the number of  *)
(* characters of that join the text keeps (less than the whole join after  *)
(* a [:2000]).  A document is its root tag and the sequence of the root's  *)
(* children in document order.                                             *)
(***************************************************************************)
NoteLimit == 2000

RECURSIVE SumLen(_)
SumLen(ps) == IF ps = <<>> THEN 0 ELSE ps[1].len + SumLen(Tail(ps))

\* len('\n\n'.join(ps))
JoinedLen(ps) == IF ps = <<>> THEN 0 ELSE SumLen(ps) + 2 * (Len(ps) - 1)

TextV(ps) == [k |-> "text", paras |-> ps, len |-> JoinedLen(ps)]

\* text[:n]
truncate(x, n) ==
    IF x.k = "text" THEN [x EXCEPT !.len = IF x.len > n THEN n ELSE x.len]
    ELSE StrV(SubSeq(x.v, 1, IF Len(x.v) > n THEN n ELSE Len(x.v)))

\* len(text)
text_len(x) == IF x.k = "text" THEN x.len ELSE Len(x.v)

\* s.split('\n\n') of a character sequence
RECURSIVE split_blank(_)
split_blank(s) ==
    LET sep == {n \in 1..(Len(s) - 1) : s[n] = "\n" /\ s[n+1] = "\n"}
    IN  IF sep = {} THEN <<s>>
        ELSE <<SubSeq(s, 1, SetMin(sep) - 1)>> \o split_blank(SubSeq(s, SetMin(sep) + 2, Len(s)))

\* descripcion.split('\n\n'), each paragraph with its position
paragraphs_of(x) ==
    IF x.k = "text" THEN x.paras
    ELSE LET parts == split_blank(x.v)
         IN  [n \in 1..Len(parts) |-> [id |-> n, len |-> Len(parts[n])]]

\* clean_description of the mapping's descriptionNote: a long note of the
\* model is a cleaned text already
clean_note(x) == IF x.k = "text" THEN x ELSE clean_description(x)

\* the packing loop of lines 190-199, from paragraph n on
RECURSIVE pack_from(_, _, _, _, _)
pack_from(paragraphs, n, current_length, first_part, second_part) ==
    IF n > Len(paragraphs)
    THEN [first_part |-> first_part, second_part |-> second_part]
    ELSE LET p == paragraphs[n]
         IN  IF current_length + p.len + Len(first_part) * 2 <= NoteLimit
             THEN pack_from(paragraphs, n + 1, current_length + p.len,
                            Append(first_part, p), second_part)
             ELSE pack_from(paragraphs, n + 1, current_length,
                            first_part, Append(second_part, p))

split_description(paragraphs) == pack_from(paragraphs, 1, 0, <<>>, <<>>)

Elem(tag, text) == [tag |-> tag, text |-> text]

Node(tag, children) == [tag |-> tag, children |-> children]

\* str(text)
str_of(x) ==
    CASE x.k = "float" -> StrV(float_str(x.v))
      [] x.k = "int"   -> StrV(int_str(x.v))
      [] x.k = "bool"  -> StrV(IF x.v THEN <<"T","r","u","e">> ELSE <<"F","a","l","s","e">>)
      [] OTHER         -> x

\* text in VALID_...: list membership, by equality with a string
one_of(text, valid) == text.k = "str" /\ text.v \in valid

\* an add_element without the fallbacks of the enumerated tags
C11_element_text_no_fallback(tag, text) ==
    IF text.k = "bool" THEN StrV(str_lower(str_of(text).v)) ELSE str_of(text)

\* the value add_element gives the element (lines 69-90)
element_text(tag, text) ==
    CASE tag = "listedOnlyOnIs24" ->
            IF text.k = "bool" THEN StrV(IF text.v THEN YES ELSE NO)
            ELSE IF ~one_of(text, VALID_LISTED_ONLY_VALUES) THEN StrV(NO) ELSE text
      [] tag = "utilizationTradeSite" ->
            IF ~one_of(text, VALID_UTILIZATION_TRADE_TYPES) THEN StrV(NO_INFORMATION) ELSE text
      [] tag = "commercializationType" ->
            IF ~one_of(text, VALID_COMMERCIALIZATION_TYPES) THEN StrV(BUY) ELSE text
      [] OTHER ->
            IF text.k = "bool" THEN StrV(str_lower(str_of(text).v)) ELSE str_of(text)

\* add_element(parent, tag, text): what it appends to parent's children
add_element(tag, text) ==
    IF text = None THEN <<>> ELSE <<Elem(tag, element_text(tag, text))>>

\* a validation that looks for absent keys only
C3_validate_required_fields_absent_only(data, required_fields) ==
    \E field \in required_fields : field \notin DOMAIN data

\* validate_required_fields raises ValueError
validate_required_fields(data, required_fields) ==
    \E field \in required_fields : field \notin DOMAIN data \/ data[field] = None

\* float(data.get(key)) if data.get(key) else None
coordinate_raises(data, key) == Truthy(GetN(data, key)) /\ float_raises(GetN(data, key))

coordinate(data, key) == IF Truthy(GetN(data, key)) THEN float_of(GetN(data, key)) ELSE None

\* ' ' in postcode raises TypeError unless postcode is a string
postcode_raises(data) == Get(data, "postcode", StrV(DefaultPostcode)).k # "str"

\* an exception escapes add_common_elements
common_raises(data) ==
    \/ postcode_raises(data)
    \/ coordinate_raises(data, "latitude")
    \/ coordinate_raises(data, "longitude")

\* the children of the address block (lines 163-184)
address_of(data) ==
    LET pc   == Get(data, "postcode", StrV(DefaultPostcode)).v
        city == GetN(data, "city")
        lat  == coordinate(data, "latitude")
        lon  == coordinate(data, "longitude")
    IN     add_element("street", GetN(data, "street"))
        \o add_element("houseNumber", Get(data, "houseNumber", StrV(Zero)))
        \o add_element("postcode", StrV(IF HasSpace(pc) THEN split_space_first(pc) ELSE pc))
        \o add_element("city", IF Truthy(city) THEN StrV(str_capitalize(city.v)) ELSE None)
        \o <<Node("internationalCountryRegion",
                     add_element("country", Get(data, "country", StrV(ESP)))
                  \o add_element("region", Get(data, "province", StrV(Unknown))))>>
        \o (IF Truthy(lat) \/ Truthy(lon)
            THEN <<Node("wgs84Coordinate",
                        add_element("latitude", lat) \o add_element("longitude", lon))>>
            ELSE <<>>)

\* descriptionNote and the overflow into otherNote (lines 186-204)
description_elements(data) ==
    LET descripcion == clean_note(GetN(data, "descriptionNote"))
    IN  IF text_len(descripcion) > NoteLimit
        THEN LET parts == split_description(paragraphs_of(descripcion))
             IN     add_element("descriptionNote", TextV(parts.first_part))
                 \o (IF parts.second_part # <<>>
                     THEN add_element("otherNote", truncate(TextV(parts.second_part), NoteLimit))
                     ELSE <<>>)
        ELSE add_element("descriptionNote", descripcion)

\* add_common_elements(root, data): the children it gives the root
add_common_elements(data) ==
       add_element("externalId", GetN(data, "externalId"))
    \o add_element("title", GetN(data, "title"))
    \o add_element("creationDate", GetN(data, "creationDate"))
    \o add_element("lastModificationDate", GetN(data, "lastModificationDate"))
    \o <<Node("address", address_of(data))>>
    \o description_elements(data)
    \o add_element("furnishingNote", GetN(data, "furnishingNote"))
    \o add_element("locationNote", GetN(data, "locationNote"))
    \o add_element("otherNote", GetN(data, "otherNote"))
    \o add_element("showAddress", Get(data, "showAddress", BoolV(FALSE)))

\* the price block
price_of(data) ==
    Node("price",
            add_element("value", GetN(data, "value"))
         \o add_element("currency", Get(data, "currency", StrV(EUR)))
         \o add_element("marketingType", Get(data, "marketingType", StrV(PURCHASE))))

\* f"{x:.2f}" raises unless x is a number
format_raises(x) == x.k \notin {"float", "int", "bool"}

format_area(x) == StrV(format_2f(float_of(x).v))

\* x or 0
or_zero(x) == IF Truthy(x) THEN x ELSE IntV(0)

\* int(x), 0 on TypeError or ValueError
int_or_zero(x) == IF int_raises(x) THEN 0 ELSE int_of(x)

\* a total that counts the bedrooms only
C10_total_rooms_bedrooms_only(data) == int_or_zero(or_zero(GetN(data, "numberOfBedRooms")))

\* total_rooms of lines 238-248 and 288-298
total_rooms(data) ==
    LET beds  == or_zero(GetN(data, "numberOfBedRooms"))
        baths == or_zero(GetN(data, "numberOfBathRooms"))
    IN  int_or_zero(beds) + int_or_zero(baths)

NoDoc == [kind |-> "none"]

Raised(exc) == [kind |-> "raise", exc |-> exc]

Xml(root, children) == [kind |-> "xml", root |-> root, children |-> children]

HOUSE_REQUIRED == {"externalId", "title", "value", "livingSpace", "plotArea"}

APARTMENT_REQUIRED == {"externalId", "title", "value", "livingSpace"}

LIVING_SITE_REQUIRED == {"externalId", "title", "value", "plotArea", "commercializationType"}

TRADE_SITE_REQUIRED == {"externalId", "title", "value", "plotArea", "commercializationType", "utilizationTradeSite"}

\* the children of the courtage block
courtage_of(data) == add_element("hasCourtage", Get(data, "hasCourtage", StrV(NOT_APPLICABLE)))

HouseBuyBuilder_build_xml(data) ==
    IF GetN(data, "type") # StrV(houseBuy) THEN NoDoc
    ELSE IF validate_required_fields(data, HOUSE_REQUIRED) THEN Raised("ValueError")
    ELSE IF \/ common_raises(data)
            \/ format_raises(data["livingSpace"])
            \/ format_raises(data["plotArea"])
         THEN Raised("TypeError")
    ELSE Xml(houseBuy,
                add_common_elements(data)
             \o add_element("buildingType", Get(data, "buildingType", StrV(NO_INFORMATION)))
             \o add_element("numberOfBedRooms", GetN(data, "numberOfBedRooms"))
             \o add_element("numberOfBathRooms", GetN(data, "numberOfBathRooms"))
             \o <<price_of(data)>>
             \o add_element("livingSpace", format_area(data["livingSpace"]))
             \o add_element("plotArea", format_area(data["plotArea"]))
             \o add_element("numberOfRooms", IntV(total_rooms(data)))
             \o <<Node("courtage", courtage_of(data))>>)

ApartmentBuyBuilder_build_xml(data) ==
    IF GetN(data, "type") # StrV(apartmentBuy) THEN NoDoc
    ELSE IF validate_required_fields(data, APARTMENT_REQUIRED) THEN Raised("ValueError")
    ELSE IF common_raises(data) \/ format_raises(data["livingSpace"])
         THEN Raised("TypeError")
    ELSE Xml(apartmentBuy,
                add_common_elements(data)
             \o add_element("apartmentType", Get(data, "apartmentType", StrV(NO_INFORMATION)))
             \o add_element("numberOfBedRooms", GetN(data, "numberOfBedRooms"))
             \o add_element("numberOfBathRooms", GetN(data, "numberOfBathRooms"))
             \o <<price_of(data)>>
             \o add_element("livingSpace", format_area(data["livingSpace"]))
             \o add_element("numberOfRooms", IntV(total_rooms(data)))
             \o <<Node("courtage", courtage_of(data))>>)

LivingBuySiteBuilder_build_xml(data) ==
    IF GetN(data, "type") # StrV(livingBuySite) THEN NoDoc
    ELSE IF validate_required_fields(data, LIVING_SITE_REQUIRED) THEN Raised("ValueError")
    ELSE IF common_raises(data) \/ format_raises(data["plotArea"])
         THEN Raised("TypeError")
    ELSE Xml(livingBuySite,
                add_common_elements(data)
             \o add_element("commercializationType", Get(data, "commercializationType", StrV(BUY)))
             \o <<price_of(data)>>
             \o add_element("plotArea", format_area(data["plotArea"]))
             \o <<Node("courtage", courtage_of(data))>>)

TradeSiteBuilder_build_xml(data) ==
    IF GetN(data, "type") # StrV(tradeSite) THEN NoDoc
    ELSE IF validate_required_fields(data, TRADE_SITE_REQUIRED) THEN Raised("ValueError")
    ELSE IF common_raises(data) \/ format_raises(data["plotArea"])
         THEN Raised("TypeError")
    ELSE Xml(tradeSite,
                add_common_elements(data)
             \o add_element("commercializationType", Get(data, "commercializationType", StrV(BUY)))
             \o add_element("utilizationTradeSite", Get(data, "utilizationTradeSite", StrV(LEISURE)))
             \o <<price_of(data)>>
             \o add_element("plotArea", format_area(data["plotArea"]))
             \o <<Node("courtage", courtage_of(data) \o add_element("courtage", GetN(data, "courtage")))>>)

\* dict_a_xml(data): no document (None), an exception, or the document
dict_a_xml(data) ==
    IF "type" \notin DOMAIN data \/ ~Truthy(data["type"]) THEN NoDoc
    ELSE IF data["type"].k # "str" THEN Raised("AttributeError")
    ELSE LET tipo_propiedad == str_strip(data["type"].v)
         IN  IF tipo_propiedad \notin SUPPORTED_PROPERTY_TYPES THEN NoDoc
             ELSE CASE tipo_propiedad = houseBuy      -> HouseBuyBuilder_build_xml(data)
                    [] tipo_propiedad = apartmentBuy  -> ApartmentBuyBuilder_build_xml(data)
                    [] tipo_propiedad = livingBuySite -> LivingBuySiteBuilder_build_xml(data)
                    [] OTHER                          -> TradeSiteBuilder_build_xml(data)

(***************************************************************************)
(* Inputs: the listings a document is made of.  Each is the reference      *)
(* listing changed in one place.                                           *)
(***************************************************************************)
Txt(s) == StrV(s)

SurfaceArea(built, plot, total, net) ==
    [k |-> "elem", built |-> built, plot |-> plot, total |-> total, net |-> net]

Location(latitude, longitude) == [k |-> "elem", latitude |-> latitude, longitude |-> longitude]

Desc(en) == [k |-> "elem", en |-> en]

N120 == Txt(<<"1","2","0">>)

N300 == Txt(<<"3","0","0">>)

N500 == Txt(<<"5","0","0">>)

N400 == Txt(<<"4","0","0">>)

Abc == Txt(<<"a","b","c">>)

Nice == Txt(<<"n","i","c","e">>)

Fine == Txt(<<"f","i","n","e">>)

BaseListing ==
    [type |-> Txt(<<"v","i","l","l","a">>), ref |-> Txt(<<"R","1">>),
     town |-> Txt(<<"m","a","r","b","e","l","l","a">>), title |-> None,
     house_number |-> None, postcode |-> None,
     province |-> Txt(<<"M","a-acute","l","a","g","a">>),
     location |-> None, show_address |-> None,
     desc |-> None, description |-> Nice,
     furnishing_note |-> None, location_note |-> None, other_note |-> None,
     beds |-> Txt(<<"3">>), baths |-> None,
     surface_area |-> SurfaceArea(N120, N300, None, None),
     price |-> Txt(<<"4","5","0","0","0","0">>),
     currency |-> None, marketing_type |-> None,
     commercialization_type |-> None, utilization_trade_site |-> None,
     min_divisible |-> None, grz |-> None, gfz |-> None]

Villa == BaseListing

\* a padded, capitalized label; an English description beside the flat one;
\* every area given; coordinates; a price with a fraction
PaddedVilla ==
    [BaseListing EXCEPT !.type = Txt(<<" ","V","i","l","l","a"," ">>),
                        !.desc = Desc(Fine),
                        !.surface_area = SurfaceArea(N120, N300, N500, N400),
                        !.location = Location(Txt(<<"3","6",".","5">>), Txt(<<"4",".","9">>)),
                        !.price = Txt(<<"9","9",".","5">>)]

\* a description block without an English entry, beside a flat description
Apartment ==
    [BaseListing EXCEPT !.type = Txt(<<"a","p","a","r","t","m","e","n","t">>),
                        !.ref = Txt(<<"R","3">>),
                        !.desc = Desc(None),
                        !.surface_area = SurfaceArea(N120, N300, N500, None),
                        !.baths = Txt(<<"2">>)]

\* no description at all, no surface-area sub-tree, no price
Land ==
    [BaseListing EXCEPT !.type = Txt(<<"l","a","n","d">>),
                        !.desc = Desc(None), !.description = None,
                        !.surface_area = None, !.price = None]

Shop ==
    [BaseListing EXCEPT !.type = Txt(<<"s","h","o","p">>), !.ref = Txt(<<"R","2">>),
                        !.description = None]

\* supported listings whose mapping the Builder refuses
ShopNoPlot == [Shop EXCEPT !.surface_area = SurfaceArea(N120, None, None, None)]

VillaNoPlot == [BaseListing EXCEPT !.surface_area = SurfaceArea(N120, None, None, None)]

VillaBadLatitude == [BaseListing EXCEPT !.location = Location(Abc, None)]

\* listings type resolution skips
SkippedListings ==
    {[BaseListing EXCEPT !.type = label] :
        label \in {None, Txt(<<>>), Txt(<<"C","o","m","m","e","r","c","i","a","l">>),
                   Txt(<<"l","i","g","h","t","h","o","u","s","e">>)}}

\* supported listings whose extraction raises
RaisingListings ==
    {[BaseListing EXCEPT !.town = None],
     [BaseListing EXCEPT !.price = Abc],
     [BaseListing EXCEPT !.price = Txt(<<>>)],
     [BaseListing EXCEPT !.surface_area = SurfaceArea(Abc, N300, None, None)],
     [Shop EXCEPT !.min_divisible = Abc]}

ListingSet ==
    {Villa, PaddedVilla, Apartment, Land, Shop, ShopNoPlot, VillaNoPlot, VillaBadLatitude}
    \cup SkippedListings \cup RaisingListings

RECURSIVE SeqsUpTo(_, _)
SeqsUpTo(S, n) ==
    IF n = 0 THEN {<<>>}
    ELSE LET shorter == SeqsUpTo(S, n - 1)
         IN  shorter \cup {Append(s, x) : s \in {q \in shorter : Len(q) = n - 1}, x \in S}

Pending == [kind |-> "pending"]

(***************************************************************************)
(* transformar_xml: the loop over the listings, one listing per step.      *)
(***************************************************************************)
MainIdle ==
    /\ i = 1 /\ generated_properties = 0 /\ sent_properties = 0
    /\ files = <<>> /\ written = {} /\ log = <<>> /\ xml = NoDoc /\ opc = "wait"

NoCall == [fn |-> "none"]

Returned(value) == [kind |-> "returned", value |-> value]

CallIdle == call = NoCall /\ result = Pending

AloneIdle == mapping = <<>> /\ outcome = Pending /\ CallIdle

Init ==
    /\ doc \in SeqsUpTo(ListingSet, MaxListings)
    /\ idx = 1 /\ properties = <<>> /\ origin = <<>> /\ mpc = "mapping"
    /\ MainIdle
    /\ AloneIdle

main_vars == <<i, generated_properties, sent_properties, files, written, log, xml, opc>>

mapper_vars == <<doc, idx, properties, origin, mpc>>

alone_vars == <<mapping, outcome, call, result>>

\* lines 103-105: unsupported or empty type, the listing is skipped
MapSkip ==
    /\ mpc = "mapping" /\ idx <= Len(doc)
    /\ type_skipped(doc[idx])
    /\ idx' = idx + 1
    /\ UNCHANGED <<doc, properties, origin, mpc, main_vars, alone_vars>>

\* lines 224-226: an exception anywhere in the loop ends the function with []
MapRaise ==
    /\ mpc = "mapping" /\ idx <= Len(doc)
    /\ ~type_skipped(doc[idx])
    /\ extraction_raises(doc[idx])
    /\ properties' = <<>>
    /\ origin' = <<>>
    /\ mpc' = "returned"
    /\ UNCHANGED <<doc, idx, main_vars, alone_vars>>

\* lines 107-220: the mapping is appended
MapAppend ==
    /\ mpc = "mapping" /\ idx <= Len(doc)
    /\ ~type_skipped(doc[idx])
    /\ ~extraction_raises(doc[idx])
    /\ properties' = Append(properties, prop_dict_of(doc[idx]))
    /\ origin' = Append(origin, idx)
    /\ idx' = idx + 1
    /\ UNCHANGED <<doc, mpc, main_vars, alone_vars>>

\* line 222: return properties
MapReturn ==
    /\ mpc = "mapping" /\ idx > Len(doc)
    /\ mpc' = "returned"
    /\ UNCHANGED <<doc, idx, properties, origin, main_vars, alone_vars>>

(***************************************************************************)
(* main: the loop over the mappings.                                       *)
(***************************************************************************)
\* lines 41-45: nothing to process ends the run
MainStart ==
    /\ mpc = "returned" /\ opc = "wait"
    /\ opc' = IF properties = <<>> THEN "done" ELSE "build"
    /\ UNCHANGED <<mapper_vars, i, generated_properties, sent_properties, files, written, log, xml, alone_vars>>

\* open(ruta_salida, 'wb') and write: the file of that name holds the document
write_file(fs, name, content) ==
    [x \in (DOMAIN fs) \cup {name} |-> IF x = name THEN content ELSE fs[x]]

\* a loop that ends at the first mapping whose build raises
C9_MainBuild_stops_on_error ==
    /\ opc = "build" /\ i <= Len(properties)
    /\ LET xml_transformado == dict_a_xml(properties[i])
           external_id == Get(properties[i], "externalId", StrV(Desconocido))
       IN  CASE xml_transformado.kind = "xml" ->
                    /\ files' = write_file(files, external_id, xml_transformado)
                    /\ written' = written \cup {i}
                    /\ generated_properties' = generated_properties + 1
                    /\ xml' = xml_transformado
                    /\ opc' = "validate"
                    /\ UNCHANGED <<i, log>>
             [] xml_transformado.kind = "none" ->
                    /\ log' = Append(log, "omitted")
                    /\ i' = i + 1
                    /\ UNCHANGED <<files, written, generated_properties, xml, opc>>
             [] OTHER ->
                    /\ log' = Append(log, "error")
                    /\ opc' = "done"
                    /\ UNCHANGED <<i, files, written, generated_properties, xml>>
    /\ UNCHANGED <<mapper_vars, sent_properties, alone_vars>>

\* lines 54-61 and 86-91: dict_a_xml, then the file transformado_<externalId>
\* is written and counted, or the listing is reported as omitted, or the
\* exception is reported.  written keeps the loop positions whose file was
\* written.
MainBuild ==
    /\ opc = "build" /\ i <= Len(properties)
    /\ LET xml_transformado == dict_a_xml(properties[i])
           external_id == Get(properties[i], "externalId", StrV(Desconocido))
       IN  CASE xml_transformado.kind = "xml" ->
                    /\ files' = write_file(files, external_id, xml_transformado)
                    /\ written' = written \cup {i}
                    /\ generated_properties' = generated_properties + 1
                    /\ xml' = xml_transformado
                    /\ opc' = "validate"
                    /\ UNCHANGED <<i, log>>
             [] xml_transformado.kind = "none" ->
                    /\ log' = Append(log, "omitted")
                    /\ i' = i + 1
                    /\ UNCHANGED <<files, written, generated_properties, xml, opc>>
             [] OTHER ->
                    /\ log' = Append(log, "error")
                    /\ i' = i + 1
                    /\ UNCHANGED <<files, written, generated_properties, xml, opc>>
    /\ UNCHANGED <<mapper_vars, sent_properties, alone_vars>>

\* a check whose failure takes the count of line 61 back
C21_MainValidate_takes_count_back ==
    /\ opc = "validate"
    /\ \/ /\ opc' = "send"
          /\ UNCHANGED <<i, log, xml, generated_properties>>
       \/ /\ log' = Append(log, "invalid")
          /\ i' = i + 1
          /\ xml' = NoDoc
          /\ opc' = "build"
          /\ generated_properties' = generated_properties - 1
    /\ UNCHANGED <<mapper_vars, sent_properties, files, written, alone_vars>>

\* lines 64-70: etree.fromstring on the serialized document.  The text of
\* the serialization is not part of the model, so both outcomes of the
\* parse are admitted.
MainValidate ==
    /\ opc = "validate"
    /\ \/ /\ opc' = "send"
          /\ UNCHANGED <<i, log, xml>>
       \/ /\ log' = Append(log, "invalid")
          /\ i' = i + 1
          /\ xml' = NoDoc
          /\ opc' = "build"
    /\ UNCHANGED <<mapper_vars, generated_properties, sent_properties, files, written, alone_vars>>

\* an upload step whose failure ends the loop
C19_MainSend_stops_on_failure ==
    /\ opc = "send"
    /\ log' = Append(log, "send_failed")
    /\ xml' = NoDoc
    /\ opc' = "done"
    /\ UNCHANGED <<mapper_vars, i, generated_properties, sent_properties, files, written, alone_vars>>

\* lines 73-85: the call of enviar_xml is commented out, so the first use of
\* respuesta raises NameError, which the handler of line 80 reports
MainSend ==
    /\ opc = "send"
    /\ log' = Append(log, "send_failed")
    /\ i' = i + 1
    /\ xml' = NoDoc
    /\ opc' = "build"
    /\ UNCHANGED <<mapper_vars, generated_properties, sent_properties, files, written, alone_vars>>

\* lines 93-101: the loop is over
MainEnd ==
    /\ opc = "build" /\ i > Len(properties)
    /\ opc' = "done"
    /\ UNCHANGED <<mapper_vars, i, generated_properties, sent_properties, files, written, log, xml, alone_vars>>

(***************************************************************************)
(* Documents of one listing, the listing drawn from a wide set: every key  *)
(* of the type table as a label (as written, upper-cased, padded), towns,  *)
(* titles, provinces, areas and postcodes (SpecWide).                      *)
(***************************************************************************)
str_upper(s) == [n \in 1..Len(s) |-> UpperCh(s[n])]

Padded(s) == <<" ">> \o s \o <<" ">>

Labels ==
    UNION {{key, str_upper(key), Padded(key)} : key \in DOMAIN TYPE_MAPPING}

TypeListings == {[BaseListing EXCEPT !.type = Txt(label)] : label \in Labels}

Marbella == <<"m","a","r","b","e","l","l","a">>

Towns == {Marbella, str_upper(Marbella), <<" ">> \o Marbella,
          <<"s","a","n"," ","p","e","d","r","o">>}

Titles == {None, Txt(<<"S","e","a"," ","v","i","e","w">>)}

TownListings ==
    {[BaseListing EXCEPT !.type = Txt(label), !.town = Txt(town), !.title = title] :
        label \in {<<"v","i","l","l","a">>, <<"V","I","L","L","A">>, <<"s","h","o","p">>},
        town \in Towns, title \in Titles}

HouseLabels == {key \in DOMAIN TYPE_MAPPING : TYPE_MAPPING[key] = houseBuy}

Provinces ==
    {None, Txt(<<>>), Txt(<<"S","e","v","i","l","l","a">>),
     Txt(<<"m","a-acute","l","a","g","a">>)}
    \cup {Txt(key) : key \in DOMAIN REGION_MAPPING}

Areas ==
    {SurfaceArea(N120, N300, None, None),
     SurfaceArea(Txt(<<"8","5",".","5">>), Txt(<<"0">>), N500, N400)}

ProvinceListings ==
    {[BaseListing EXCEPT !.type = Txt(label), !.province = province, !.surface_area = area] :
        label \in HouseLabels, province \in Provinces, area \in Areas}

Postcodes ==
    {None, Txt(<<>>), Txt(<<"2","9","6","0","0">>),
     Txt(<<"2","9","0","0","0"," ","E","S","P">>), Txt(<<" ","2","9","6","0","0">>),
     Txt(<<"2","9"," ","0","0"," ","1">>), Txt(<<"2","9","6","0","0"," ">>),
     Txt(<<" "," ">>), Txt(<<"2","9","\t","6","0","0">>)}

PostcodeListings ==
    {[l EXCEPT !.postcode = postcode] : l \in {Villa, Shop}, postcode \in Postcodes}

WideListingSet ==
    TypeListings \cup TownListings \cup ProvinceListings \cup PostcodeListings \cup ListingSet

InitWide ==
    /\ doc \in {<<listing>> : listing \in WideListingSet}
    /\ idx = 1 /\ properties = <<>> /\ origin = <<>> /\ mpc = "mapping"
    /\ MainIdle
    /\ AloneIdle

(***************************************************************************)
(* dict_a_xml called on its own, on a mapping drawn from MappingSet: the   *)
(* mappings the Mapper gives for the reference listings, each changed in   *)
(* one place (a key removed or set to None, another type, a long           *)
(* description, other room counts).                                        *)
(***************************************************************************)
Without(d, key) == [x \in (DOMAIN d) \ {key} |-> d[x]]

With(d, key, value) == [x \in (DOMAIN d) \cup {key} |-> IF x = key THEN value ELSE d[x]]

HouseMapping == prop_dict_of(Villa)

ApartmentMapping == prop_dict_of(Apartment)

LandMapping == prop_dict_of(Land)

ShopMapping == prop_dict_of(Shop)

BaseMappings == {HouseMapping, ApartmentMapping, LandMapping, ShopMapping}

AllRequired == TRADE_SITE_REQUIRED \cup HOUSE_REQUIRED

TypeValues ==
    {None, StrV(<<>>), StrV(<<" ">> \o houseBuy \o <<" ">>), StrV(str_lower(houseBuy)),
     StrV(<<"c","a","s","t","l","e">>)}

ParaLens == {1, 600, 998, 1000, 1500, 2001}

Numbered(lens) == [n \in 1..Len(lens) |-> [id |-> n, len |-> lens[n]]]

LongNotes == {TextV(Numbered(lens)) : lens \in SeqsUpTo(ParaLens, MaxParas) \ {<<>>}}

RoomCounts ==
    {None, Txt(<<"3">>), Txt(<<"2">>), Txt(<<>>), Txt(<<" ","4"," ">>), Abc,
     Txt(<<"3",".","5">>), Txt(<<"0">>), IntV(2)}

OtherNotes == {None, Txt(<<"x">>)}

\* a note that fits and one that overflows
Notes == {Nice, TextV(Numbered(<<1500, 600>>))}

Dates == {None, Txt(<<"2","0","2","4","-","0","1","-","0","1">>)}

\* mappings with the optional children of the common block present or not
NotedMappings ==
    {With(With(With(With(With(m, "descriptionNote", note), "furnishingNote", furnishing),
                    "locationNote", location), "otherNote", other), "creationDate", date) :
        m \in BaseMappings, note \in Notes, furnishing \in OtherNotes,
        location \in OtherNotes, other \in OtherNotes, date \in Dates}

Coordinates ==
    {None, Txt(<<>>), Txt(<<"0">>), Txt(<<"0",".","0">>), Txt(<<"3","6",".","5">>),
     Txt(<<"-","4",".","9">>)}

LocatedMappings ==
    {With(With(HouseMapping, "latitude", lat), "longitude", lon) :
        lat \in Coordinates, lon \in Coordinates}

MappingSet ==
    BaseMappings
    \cup LocatedMappings
    \cup NotedMappings
    \cup {Without(m, key) : m \in BaseMappings, key \in AllRequired}
    \cup {With(m, key, None) : m \in BaseMappings, key \in AllRequired}
    \cup {Without(HouseMapping, "type"), Without(Without(HouseMapping, "type"), "title")}
    \cup {With(HouseMapping, "type", type) : type \in TypeValues}
    \cup {With(With(HouseMapping, "type", type), "title", None) : type \in TypeValues}
    \cup {With(With(m, "descriptionNote", note), "otherNote", other) :
            m \in {HouseMapping, ShopMapping}, note \in LongNotes, other \in OtherNotes}
    \cup {With(With(m, "numberOfBedRooms", beds), "numberOfBathRooms", baths) :
            m \in {HouseMapping, ApartmentMapping}, beds \in RoomCounts, baths \in RoomCounts}
    \cup {Without(m, "numberOfBedRooms") : m \in {HouseMapping, ApartmentMapping}}
    \cup {Without(Without(m, "numberOfBedRooms"), "numberOfBathRooms") :
            m \in {HouseMapping, ApartmentMapping}}

InitBuild ==
    /\ mapping \in MappingSet
    /\ outcome = Pending
    /\ doc = <<>> /\ idx = 1 /\ properties = <<>> /\ origin = <<>> /\ mpc = "mapping"
    /\ MainIdle
    /\ CallIdle

\* dict_a_xml returns None
DictAXmlNone ==
    /\ outcome = Pending
    /\ dict_a_xml(mapping).kind = "none"
    /\ outcome' = dict_a_xml(mapping)
    /\ UNCHANGED <<mapping, call, result, mapper_vars, main_vars>>

\* dict_a_xml raises
DictAXmlRaises ==
    /\ outcome = Pending
    /\ dict_a_xml(mapping).kind = "raise"
    /\ outcome' = dict_a_xml(mapping)
    /\ UNCHANGED <<mapping, call, result, mapper_vars, main_vars>>

\* dict_a_xml returns the serialized document
DictAXmlReturns ==
    /\ outcome = Pending
    /\ dict_a_xml(mapping).kind = "xml"
    /\ outcome' = dict_a_xml(mapping)
    /\ UNCHANGED <<mapping, call, result, mapper_vars, main_vars>>

(***************************************************************************)
(* add_element and clean_description called on their own (SpecCalls).      *)
(***************************************************************************)
RENT_TO_OWN == <<"R","E","N","T","_","T","O","_","O","W","N">>

ElementTags ==
    {"commercializationType", "utilizationTradeSite", "listedOnlyOnIs24", "showAddress", "title"}

ElementTexts ==
    {None, BoolV(TRUE), BoolV(FALSE), IntV(0), IntV(1), FloatV(150)}
    \cup {StrV(s) : s \in {BUY, LEASE, RENT_TO_OWN, str_lower(BUY), YES, NO, NOT_APPLICABLE,
                           LEISURE, AGRICULTURE_FORESTRY, NO_INFORMATION, <<>>}}

AddElementCalls ==
    {[fn |-> "add_element", tag |-> tag, text |-> text] : tag \in ElementTags, text \in ElementTexts}

\* the texts of letters, spaces and newlines
TextChars == {"a", " ", "\n"}

Texts == SeqsUpTo(TextChars, MaxText) \ {<<>>}

CleanDescriptionCalls == {[fn |-> "clean_description", text |-> StrV(s)] : s \in Texts}

CallSet == AddElementCalls \cup CleanDescriptionCalls

InitCalls ==
    /\ call \in CallSet
    /\ result = Pending
    /\ mapping = <<>> /\ outcome = Pending
    /\ doc = <<>> /\ idx = 1 /\ properties = <<>> /\ origin = <<>> /\ mpc = "mapping"
    /\ MainIdle

\* add_element(parent, tag, text) on an empty parent: the children it leaves
CallAddElement ==
    /\ result = Pending
    /\ call.fn = "add_element"
    /\ result' = Returned(add_element(call.tag, call.text))
    /\ UNCHANGED <<call, mapping, outcome, mapper_vars, main_vars>>

NextBuild == DictAXmlNone \/ DictAXmlRaises \/ DictAXmlReturns

SpecBuild == InitBuild /\ [][NextBuild]_vars

\* clean_description(text)
CallCleanDescription ==
    /\ result = Pending
    /\ call.fn = "clean_description"
    /\ result' = Returned(clean_description(call.text))
    /\ UNCHANGED <<call, mapping, outcome, mapper_vars, main_vars>>

NextCalls == CallAddElement \/ CallCleanDescription

SpecCalls == InitCalls /\ [][NextCalls]_vars

Next ==
    \/ MapSkip \/ MapRaise \/ MapAppend \/ MapReturn
    \/ MainStart \/ MainBuild \/ MainValidate \/ MainSend \/ MainEnd

Spec == Init /\ [][Next]_vars

SpecWide == InitWide /\ [][Next]_vars

(***************************************************************************)
(* Reading a document.                                                     *)
(***************************************************************************)
\* the children of a document's root that carry the tag
Tagged(children, tag) == SelectSeq(children, LAMBDA e : e.tag = tag)

Range(s) == {s[n] : n \in 1..Len(s)}

FourVariants == {houseBuy, apartmentBuy, livingBuySite, tradeSite}

(***************************************************************************)
(* The Builder on its own (SpecBuild).                                     *)
(***************************************************************************)
C3_Required(type) ==
    CASE type = houseBuy      -> {"externalId", "title", "value", "livingSpace", "plotArea"}
      [] type = apartmentBuy  -> {"externalId", "title", "value", "livingSpace"}
      [] type = livingBuySite -> {"externalId", "title", "value", "plotArea", "commercializationType"}
      [] type = tradeSite     -> {"externalId", "title", "value", "plotArea", "commercializationType",
                                  "utilizationTradeSite"}

C3_LacksRequired(data) ==
    LET type == GetN(data, "type")
    IN  IF type.k = "str" /\ type.v \in FourVariants
        THEN \E field \in C3_Required(type.v) : GetN(data, field) = None
        ELSE FALSE

C3_NoVariant(data) ==
    LET type == GetN(data, "type")
    IN  IF Truthy(type) THEN type.v \notin FourVariants ELSE TRUE

\* C3: dict_a_xml on a mapping of one of the four variants that lacks a field
\* of that variant's required set (absent or None) raises and gives no
\* document; on a mapping whose type is missing, empty or none of the four
\* it returns None without raising; the two outcomes differ.
C3_RequiredFieldRaisesWrongTypeIsNone ==
    outcome # Pending =>
        /\ C3_LacksRequired(mapping) => outcome.kind = "raise"
        /\ C3_NoVariant(mapping) => outcome = NoDoc
        /\ outcome.kind = "raise" => outcome # NoDoc

C3_Witness ==
    /\ outcome = Raised("ValueError")
    /\ GetN(mapping, "type") = StrV(tradeSite)
    /\ "utilizationTradeSite" \notin DOMAIN mapping

C4_Overflows(data) == text_len(clean_note(GetN(data, "descriptionNote"))) > 2000

C4_Original(data) == paragraphs_of(clean_note(GetN(data, "descriptionNote")))

\* paragraphs of the descriptionNote element
C4_First(children) == Tagged(children, "descriptionNote")[1].text.paras

\* paragraphs of the otherNote element that follows descriptionNote, if the
\* split emitted one
C4_Second(children) ==
    LET notes == SelectSeq(Tagged(children, "otherNote"), LAMBDA e : e.text.k = "text")
    IN  IF notes = <<>> THEN <<>> ELSE notes[1].text.paras

\* C4: when the cleaned description is longer than 2000 characters, the first
\* segment's joined length is at most 2000 and the first-segment paragraphs
\* followed by the second-segment paragraphs are the original paragraph
\* sequence in its order.
C4_SplitIsPrefixAndRest ==
    (outcome.kind = "xml" /\ C4_Overflows(mapping)) =>
        /\ JoinedLen(C4_First(outcome.children)) <= 2000
        /\ C4_First(outcome.children) \o C4_Second(outcome.children) = C4_Original(mapping)

\* the original paragraphs that are not in the first segment
C5_Remaining(data, children) ==
    SelectSeq(C4_Original(data), LAMBDA p : p \notin Range(C4_First(children)))

\* C5: every emitted document has at most one otherNote element; when the
\* description overflows and a second segment exists there is exactly one,
\* holding the joined remaining paragraphs cut to 2000 characters, and the
\* mapping's own otherNote is not emitted.
C5_SingleOtherNote ==
    outcome.kind = "xml" =>
        /\ Len(Tagged(outcome.children, "otherNote")) <= 1
        /\ (C4_Overflows(mapping) /\ C5_Remaining(mapping, outcome.children) # <<>>) =>
              /\ Len(Tagged(outcome.children, "otherNote")) = 1
              /\ Tagged(outcome.children, "otherNote")[1].text
                    = truncate(TextV(C5_Remaining(mapping, outcome.children)), 2000)

\* what a count contributes: its integer value, zero when it is absent, None
\* or no integer
C10_Contribution(x) == IF int_raises(x) THEN 0 ELSE int_of(x)

\* C10: in every houseBuy and apartmentBuy document numberOfRooms is the
\* integer value of the bedroom count plus that of the bathroom count, a
\* count that is absent, None or not parseable as an integer counting zero.
C10_RoomsAreBedsPlusBaths ==
    (outcome.kind = "xml" /\ outcome.root \in {houseBuy, apartmentBuy}) =>
        Tagged(outcome.children, "numberOfRooms")
            = <<Elem("numberOfRooms",
                     StrV(int_str(C10_Contribution(GetN(mapping, "numberOfBedRooms"))
                                  + C10_Contribution(GetN(mapping, "numberOfBathRooms")))))>>

C10_Witness ==
    /\ outcome.kind = "xml"
    /\ outcome.root = houseBuy
    /\ GetN(mapping, "numberOfBedRooms") = StrV(<<"3">>)
    /\ GetN(mapping, "numberOfBathRooms") = None
    /\ Tagged(outcome.children, "numberOfRooms") = <<Elem("numberOfRooms", StrV(<<"3">>))>>

(***************************************************************************)
(* The Mapper and the run of main (Spec).                                  *)
(***************************************************************************)
\* the lowercase-trimmed type label is a key of the type-mapping table
C2_Supported(prop) ==
    LET label == findtext(prop, "type")
    IN  IF label = None THEN FALSE
        ELSE str_lower(str_strip(label.v)) \in DOMAIN TYPE_MAPPING

\* the returned sequence holds the mapping of the listing at position n
C1_Present(n) ==
    \E m \in 1..Len(properties) : origin[m] = n /\ properties[m] = prop_dict_of(doc[n])

C1_Extractable(prop) == IF C2_Supported(prop) THEN ~extraction_raises(prop) ELSE FALSE

\* C1: an exception raised while the fields of one listing are extracted
\* skips that listing only: every other listing of the document whose type
\* resolves is in the returned sequence.
C1_OnlyTheRaisingListingIsSkipped ==
    mpc = "returned" =>
        \A n \in 1..Len(doc) : C1_Extractable(doc[n]) => C1_Present(n)

\* C2: the Mapper output holds exactly the listings whose lowercase-trimmed
\* type label is in the type-mapping table, in input order, each with one of
\* the four types, and is no longer than the input.
C2_OutputIsTheSupportedListingsInOrder ==
    mpc = "returned" =>
        /\ \A n \in 1..Len(doc) : C2_Supported(doc[n]) <=> n \in Range(origin)
        /\ \A m \in 1..Len(origin) : \A k \in 1..Len(origin) : m < k => origin[m] < origin[k]
        /\ \A m \in 1..Len(properties) : properties[m]["type"].v \in FourVariants
        /\ Len(properties) <= Len(doc)

\* the price of a listing: its number, zero when absent or no number
C6_Price(prop) ==
    LET price == findtext(prop, "price")
    IN  IF price = None THEN FloatV(0)
        ELSE IF FloatParses(price.v) THEN FloatV(FloatValue(price.v)) ELSE FloatV(0)

\* a field other than the price stops the extraction of the listing
C6_OtherFieldRaises(prop) ==
    IF C2_Supported(prop)
    THEN town_raises(prop) \/ trade_raises(prop) \/ area_raises(prop)
    ELSE FALSE

\* C6: the mapping's value is the source price as a number, zero when the
\* price is absent or no float; an unparseable price removes neither its
\* listing nor another one from the output.
C6_PriceIsNumberOrZero ==
    (mpc = "returned" /\ \A n \in 1..Len(doc) : ~C6_OtherFieldRaises(doc[n])) =>
        \A n \in 1..Len(doc) :
            C2_Supported(doc[n]) =>
                \E m \in 1..Len(properties) :
                    /\ origin[m] = n
                    /\ float_of(properties[m]["value"]) = C6_Price(doc[n])

\* the float of an area sub-field
C7_Area(x) == FloatV(FloatValue(x.v))

\* C7: with a surface-area sub-tree, total and net floor space are the
\* sub-tree's own values when present and the plot value when absent;
\* without one, plotArea, totalFloorSpace and netFloorSpace are one value,
\* zero when there is no flat total.
C7_TotalAndNetDefaultToPlot ==
    mpc = "returned" =>
        \A m \in 1..Len(properties) :
            LET surface_area == doc[origin[m]].surface_area
                d == properties[m]
            IN  IF surface_area # None
                THEN /\ d["totalFloorSpace"] =
                            IF Truthy(surface_area.total) THEN C7_Area(surface_area.total)
                            ELSE d["plotArea"]
                     /\ d["netFloorSpace"] =
                            IF Truthy(surface_area.net) THEN C7_Area(surface_area.net)
                            ELSE d["plotArea"]
                ELSE /\ d["totalFloorSpace"] = d["plotArea"]
                     /\ d["netFloorSpace"] = d["plotArea"]
                     /\ float_of(d["plotArea"]) = FloatV(0)

\* the description the Mapper is to use: the English entry, else the flat
\* description, else none
C8_Chosen(prop) ==
    IF (IF prop.desc # None THEN Truthy(prop.desc.en) ELSE FALSE) THEN prop.desc.en
    ELSE IF Truthy(prop.description) THEN prop.description
    ELSE None

C8_Note(prop) ==
    LET tipo == str_capitalize(str_capitalize(findtext(prop, "type").v))
        text == C8_Chosen(prop)
    IN  clean_description(StrV(tipo \o ColonSpace
                               \o (IF text = None THEN NoDescription ELSE html_unescape(text.v))))

\* C8: the description is the English sub-field when it exists and is
\* non-empty, else the flat description when that exists and is non-empty
\* (also when a description block without an English entry is present),
\* and "<Type>: No description provided" only when neither exists.
C8_EnglishThenFlatThenPlaceholder ==
    mpc = "returned" =>
        \A m \in 1..Len(properties) :
            properties[m]["descriptionNote"] = C8_Note(doc[origin[m]])

\* a tradeSite mapping whose plotArea is null
C9_FailingTradeSite(data) ==
    GetN(data, "type") = StrV(tradeSite) /\ GetN(data, "plotArea") = None

\* the loop of main is past position m
C9_Processed(m) == opc = "done" \/ m < i

\* the failing tradeSite is not written and not counted
C9_FailingIsNotWritten ==
    /\ \A m \in 1..Len(properties) : C9_FailingTradeSite(properties[m]) => m \notin written
    /\ generated_properties = Cardinality(written)

\* C9 as stated: a tradeSite mapping whose plotArea is null fails alone (no
\* file, count not incremented), and every other mapping of the run that
\* satisfies its required fields has its document built and written.
C9_EveryMappingWithRequiredFieldsIsWritten ==
    /\ C9_FailingIsNotWritten
    /\ \A m \in 1..Len(properties) :
          (/\ C9_Processed(m)
           /\ ~C3_NoVariant(properties[m])
           /\ ~C3_LacksRequired(properties[m])) => m \in written

\* the build of the mapping raises nothing: its required fields are there,
\* its postcode is a text, its coordinates are numbers and its areas can be
\* formatted
C9_BuildsCleanly(data) ==
    IF C3_NoVariant(data) \/ C3_LacksRequired(data) THEN FALSE
    ELSE /\ ~common_raises(data)
         /\ \A key \in {"livingSpace", "plotArea"} \cap C3_Required(data["type"].v) :
                ~format_raises(data[key])

\* C9 amended: a tradeSite mapping whose plotArea is null fails alone (no
\* file, count not incremented), and every other mapping of the run whose
\* own build raises no error has its document built and written, wherever
\* it stands before or after the failing one.
C9_EveryMappingThatBuildsIsWritten ==
    /\ C9_FailingIsNotWritten
    /\ \A m \in 1..Len(properties) :
          (C9_Processed(m) /\ C9_BuildsCleanly(properties[m])) => m \in written

C9_Witness ==
    /\ opc = "done"
    /\ Len(properties) = 2
    /\ C9_FailingTradeSite(properties[1])
    /\ written = {2}
    /\ generated_properties = 1
    /\ log[1] = "error"

(***************************************************************************)
(* add_element and clean_description on their own (SpecCalls).             *)
(***************************************************************************)
C11_Valid(tag) ==
    CASE tag = "commercializationType" -> {BUY, LEASE}
      [] tag = "utilizationTradeSite"  -> {AGRICULTURE_FORESTRY, LEISURE, NO_INFORMATION}
      [] tag = "listedOnlyOnIs24"      -> {YES, NO, NOT_APPLICABLE}

C11_Fallback(tag) ==
    CASE tag = "commercializationType" -> BUY
      [] tag = "utilizationTradeSite"  -> NO_INFORMATION
      [] tag = "listedOnlyOnIs24"      -> NO

C11_InSet(tag, text) == IF text.k = "str" THEN text.v \in C11_Valid(tag) ELSE FALSE

\* add_element was called with a value under one of the enumerated tags
C11_Called ==
    /\ result # Pending
    /\ call.fn = "add_element"
    /\ call.tag \in {"commercializationType", "utilizationTradeSite", "listedOnlyOnIs24"}
    /\ call.text # None

\* C11 as stated: a non-null value under commercializationType,
\* utilizationTradeSite or listedOnlyOnIs24 is emitted as itself when it is
\* in the tag's valid set and as the tag's fallback (BUY, NO_INFORMATION, NO)
\* otherwise.
C11_ValueOrFallback ==
    C11_Called =>
        result.value = <<Elem(call.tag,
                              IF C11_InSet(call.tag, call.text) THEN call.text
                              ELSE StrV(C11_Fallback(call.tag)))>>

\* C11 amended: the emitted text is always in the tag's valid set: the value
\* itself when it is in the set; YES or NO for a boolean true or false under
\* listedOnlyOnIs24; the tag's fallback otherwise.
C11_ValueOrBooleanOrFallback ==
    C11_Called =>
        /\ Len(result.value) = 1
        /\ result.value[1].tag = call.tag
        /\ result.value[1].text.k = "str"
        /\ result.value[1].text.v \in C11_Valid(call.tag)
        /\ result.value[1].text =
              IF C11_InSet(call.tag, call.text) THEN call.text
              ELSE IF call.tag = "listedOnlyOnIs24" /\ call.text.k = "bool"
                   THEN StrV(IF call.text.v THEN YES ELSE NO)
              ELSE StrV(C11_Fallback(call.tag))

C11_Witness ==
    /\ call = [fn |-> "add_element", tag |-> "commercializationType", text |-> StrV(RENT_TO_OWN)]
    /\ result = Returned(<<Elem("commercializationType", StrV(BUY))>>)

(***************************************************************************)
(* The order of the children of a document (SpecBuild).                    *)
(***************************************************************************)
C12_CommonOrder ==
    <<"externalId", "title", "creationDate", "lastModificationDate", "address",
      "descriptionNote", "furnishingNote", "locationNote", "otherNote", "showAddress">>

C12_Rank(tag) == CHOOSE n \in 1..Len(C12_CommonOrder) : C12_CommonOrder[n] = tag

C12_Common(tag) == tag \in Range(C12_CommonOrder)

\* C12: in every emitted document the common-block children of the root
\* stand in the order externalId, title, creationDate, lastModificationDate,
\* address, descriptionNote, furnishingNote, locationNote, otherNote,
\* showAddress, also when the description overflows into otherNote, and
\* they all precede every variant-specific child.
C12_CommonBlockInOrder ==
    outcome.kind = "xml" =>
        \A a \in 1..Len(outcome.children) : \A b \in 1..Len(outcome.children) :
            a < b =>
                IF C12_Common(outcome.children[b].tag)
                THEN /\ C12_Common(outcome.children[a].tag)
                     /\ C12_Rank(outcome.children[a].tag) <= C12_Rank(outcome.children[b].tag)
                ELSE TRUE

(***************************************************************************)
(* The coordinate block (SpecBuild).                                       *)
(***************************************************************************)
\* a coordinate of the mapping is present: not None and not empty
C13_Present(x) == IF x = None THEN FALSE ELSE x # StrV(<<>>)

C13_Element(tag, x) ==
    IF C13_Present(x) THEN <<Elem(tag, StrV(float_str(FloatValue(x.v))))>> ELSE <<>>

C13_Blocks(children) == Tagged(Tagged(children, "address")[1].children, "wgs84Coordinate")

\* C13: the address block holds a coordinate block exactly when at least one
\* of the mapping's latitude and longitude is present (not None, not empty),
\* a present coordinate of value zero included, and the block holds the
\* float values of the present coordinates.
C13_CoordinateBlockIffPresent ==
    outcome.kind = "xml" =>
        LET lat == GetN(mapping, "latitude")
            lon == GetN(mapping, "longitude")
        IN  IF C13_Present(lat) \/ C13_Present(lon)
            THEN C13_Blocks(outcome.children)
                    = <<Node("wgs84Coordinate",
                             C13_Element("latitude", lat) \o C13_Element("longitude", lon))>>
            ELSE C13_Blocks(outcome.children) = <<>>

(***************************************************************************)
(* One listing through the Mapper and the Builder (SpecWide).              *)
(***************************************************************************)
\* the listing of the document, its mapping and its document
C14_Listing == doc[1]

C14_Mapped == mpc = "returned" /\ Len(properties) = 1

C14_Built == opc = "done" /\ written = {1}

C14_Document == files[properties[1]["externalId"]]

\* the rule: an absent value becomes "29000", a value with a space is cut at
\* its first space
C14_Normalize(x) ==
    IF x = None THEN StrV(DefaultPostcode)
    ELSE IF \E n \in 1..Len(x.v) : x.v[n] = " "
         THEN StrV(SubSeq(x.v, 1, (CHOOSE n \in 1..Len(x.v) :
                                      /\ x.v[n] = " "
                                      /\ \A k \in 1..(n - 1) : x.v[k] # " ") - 1))
         ELSE x

C14_PostcodeOf(children) == Tagged(Tagged(children, "address")[1].children, "postcode")

\* C14: the Mapper's postcode is the rule applied to the source postcode;
\* the rule applied to it again changes nothing; it holds no space; and the
\* Builder's postcode element holds it unchanged.
C14_PostcodeNormalizationIsIdempotent ==
    C14_Mapped =>
        LET postcode == properties[1]["postcode"]
        IN  /\ postcode = C14_Normalize(findtext(C14_Listing, "postcode"))
            /\ C14_Normalize(postcode) = postcode
            /\ \A n \in 1..Len(postcode.v) : postcode.v[n] # " "
            /\ C14_Built => C14_PostcodeOf(C14_Document.children) = <<Elem("postcode", postcode)>>

C14_Witness ==
    /\ C14_Built
    /\ findtext(C14_Listing, "postcode") = Txt(<<"2","9"," ","0","0"," ","1">>)
    /\ C14_PostcodeOf(C14_Document.children) = <<Elem("postcode", StrV(<<"2","9">>))>>

\* a text with its first letter upper-cased (and the rest lower-cased, as
\* capitalize does), surrounding whitespace apart
C15_Capitalized(s) ==
    LET trimmed == str_strip(s)
    IN  [n \in 1..Len(trimmed) |-> IF n = 1 THEN UpperCh(trimmed[n]) ELSE LowerCh(trimmed[n])]

\* C15: the title of every listing in the Mapper output is its type label
\* with the first letter capitalized, " in ", and its town with the first
\* letter capitalized, for every label type resolution accepts; the source
\* title field has no part in it.
C15_TitleIsTypeInTown ==
    C14_Mapped =>
        properties[1]["title"]
            = StrV(C15_Capitalized(findtext(C14_Listing, "type").v)
                   \o <<" ", "i", "n", " ">>
                   \o C15_Capitalized(findtext(C14_Listing, "town").v))

(***************************************************************************)
(* clean_description on its own (SpecCalls).                               *)
(***************************************************************************)
\* n starts a line of s, n ends a line of s
C16_LineStart(s, n) == IF n = 1 THEN TRUE ELSE s[n - 1] = "\n"

C16_LineEnd(s, n) == IF n = Len(s) THEN TRUE ELSE s[n + 1] = "\n"

\* C16: for every non-empty text the result of clean_description holds no
\* run of three or more newlines, no line that starts or ends with
\* whitespace, and no whitespace at its own start or end.
C16_CleanTextIsNormalized ==
    (result # Pending /\ call.fn = "clean_description") =>
        LET s == result.value.v
        IN  /\ \A n \in 1..(Len(s) - 2) : ~(s[n] = "\n" /\ s[n + 1] = "\n" /\ s[n + 2] = "\n")
            /\ \A n \in 1..Len(s) :
                  (s[n] # "\n" /\ IsSpace(s[n])) => (~C16_LineStart(s, n) /\ ~C16_LineEnd(s, n))
            /\ s # <<>> => (~IsSpace(s[1]) /\ ~IsSpace(s[Len(s)]))

(***************************************************************************)
(* A houseBuy listing from source to document (SpecWide).                  *)
(***************************************************************************)
C17_Province == findtext(C14_Listing, "province")

\* a listing of a houseBuy label with a province, a price, a built area and
\* a plot area
C17_Scenario == C14_Listing \in ProvinceListings /\ C17_Province # None

C17_Label == str_lower(str_strip(findtext(C14_Listing, "type").v))

C17_Area(name) == findtext(C14_Listing.surface_area, name)

C17_RegionOf(children) ==
    Tagged(Tagged(Tagged(children, "address")[1].children,
                  "internationalCountryRegion")[1].children, "region")

\* digits, a point, two digits
C17_TwoDecimals(s) ==
    /\ Len(s) >= 4
    /\ s[Len(s) - 2] = "."
    /\ \A n \in (1..Len(s)) \ {Len(s) - 2} : \E d \in 1..Len(Digits) : s[n] = Digits[d]

\* the text of the one element tagged name is the area with two decimals
C17_Rendered(children, name, area) ==
    /\ Len(Tagged(children, name)) = 1
    /\ Tagged(children, name)[1].text.k = "str"
    /\ C17_TwoDecimals(Tagged(children, name)[1].text.v)
    /\ float_of(Tagged(children, name)[1].text) = float_of(area)

\* C17: once the run over a document of one houseBuy listing with a
\* province, a price, a built area and a plot area has ended, the listing's
\* document is written; its root is houseBuy, its region is the
\* REGION_MAPPING label of the province when the province is a key and the
\* province unchanged otherwise, its buildingType is the BUILD_MAPPING entry
\* of the label, and its livingSpace and plotArea are the built and plot
\* areas with exactly two decimals.
C17_HouseBuyEndToEnd ==
    (C17_Scenario /\ opc = "done") =>
        /\ C14_Mapped
        /\ written = {1}
        /\ C14_Document.root = houseBuy
        /\ C17_RegionOf(C14_Document.children)
              = <<Elem("region", IF C17_Province.v \in DOMAIN REGION_MAPPING
                                 THEN StrV(REGION_MAPPING[C17_Province.v])
                                 ELSE C17_Province)>>
        /\ Tagged(C14_Document.children, "buildingType")
              = <<Elem("buildingType", StrV(BUILD_MAPPING[C17_Label]))>>
        /\ C17_Rendered(C14_Document.children, "livingSpace", C17_Area("built"))
        /\ C17_Rendered(C14_Document.children, "plotArea", C17_Area("plot"))

C17_Witness ==
    /\ C17_Scenario /\ opc = "done"
    /\ C17_Province = Txt(<<"M","a-acute","l","a","g","a">>)
    /\ C14_Document.root = houseBuy
    /\ C17_RegionOf(C14_Document.children) = <<Elem("region", StrV(<<"A","n","d","a","l","u","s","i","e","n">>))>>
    /\ Tagged(C14_Document.children, "livingSpace") = <<Elem("livingSpace", StrV(<<"1","2","0",".","0","0">>))>>
    /\ Tagged(C14_Document.children, "plotArea") = <<Elem("plotArea", StrV(<<"3","0","0",".","0","0">>))>>

(***************************************************************************)
(* The well-formedness check and the upload step of the loop (Spec).       *)
(***************************************************************************)
\* the loop positions whose listing has met its end, each with one report
C18_Reported == 1..Len(log)

\* the positions whose document was written and passed the check
C18_Generated == {m \in C18_Reported : log[m] \notin {"omitted", "error", "invalid"}}

\* between two listings and after the last, no position past the reported
\* ones has been begun
C18_BetweenListings == opc \in {"build", "done"}

\* every listing of the run has its report once the run is over
C18_RunContinues == (opc = "done") => Len(log) = Len(properties)

\* C18: a listing whose document fails the check after its build is not
\* counted as generated (the count is the number of listings written and
\* passing the check), is not uploaded (its one report is that of the
\* check, and the sent count does not move), and the run goes on to the
\* listings after it.
C18_InvalidDocumentIsSkipped ==
    /\ C18_BetweenListings => generated_properties = Cardinality(C18_Generated)
    /\ sent_properties = 0
    /\ C18_RunContinues

\* the positions whose upload step came to its end without an error: line 79
\* is reached by no run, the name respuesta being bound nowhere
C19_Completed == {m \in C18_Reported : log[m] = "sent"}

\* C19: a listing after one whose upload failed, once the loop is past it,
\* has its document written and is offered for upload (or fails the check
\* before the upload) whenever its own build raises no error; every listing
\* has its report when the run is over; and the sent count is the number of
\* listings whose upload step completed without error.
C19_UploadFailureBlocksNothing ==
    /\ \A m \in C18_Reported : log[m] = "send_failed" =>
          \A n \in (m + 1)..Len(properties) :
              (C9_Processed(n) /\ C9_BuildsCleanly(properties[n])) =>
                  (n \in written /\ n \in C18_Reported /\ log[n] \in {"send_failed", "invalid"})
    /\ C18_RunContinues
    /\ sent_properties = Cardinality(C19_Completed)

C19_Witness ==
    /\ opc = "done"
    /\ log = <<"send_failed", "send_failed">>
    /\ written = {1, 2}
    /\ sent_properties = 0


(***************************************************************************)
(* The keys of TYPE_MAPPING as type labels (SpecWide).                     *)
(***************************************************************************)
C20_Label == findtext(C14_Listing, "type")

\* a listing, sound in every other field, whose label is a key as written
C20_LabelIsKey ==
    /\ C14_Listing \in TypeListings
    /\ C20_Label.v \in DOMAIN TYPE_MAPPING

\* C20: a listing whose type label is exactly a key of TYPE_MAPPING is not
\* skipped by type resolution, and its mapping carries that key's tag.
C20_EveryKeyIsReachable ==
    (C20_LabelIsKey /\ mpc = "returned") =>
        /\ Len(properties) = 1
        /\ properties[1]["type"] = StrV(TYPE_MAPPING[C20_Label.v])


(***************************************************************************)
(* The counters of the loop of main (Spec).                                *)
(***************************************************************************)
\* the mappings the loop has taken up so far: the one in hand counts
C21_ProcessedSoFar == IF opc \in {"validate", "send"} THEN i ELSE i - 1

C21_Ordered ==
    /\ sent_properties <= generated_properties
    /\ generated_properties <= C21_ProcessedSoFar
    /\ C21_ProcessedSoFar <= Len(properties)
    /\ Len(properties) <= Len(doc)
    /\ written \subseteq 1..C21_ProcessedSoFar
    /\ generated_properties = Cardinality(written)

\* a step leaves a counter as it is or adds one to it, and adds one to the
\* generated count only as it writes the file of the listing in hand
C21_Step ==
    /\ sent_properties' \in {sent_properties, sent_properties + 1}
    /\ generated_properties' \in {generated_properties, generated_properties + 1}
    /\ generated_properties' = generated_properties + 1 => written' = written \cup {i} /\ i \notin written
    /\ i' \in {i, i + 1}

\* C21: at every point of the loop of main, sent count <= generated count
\* <= mappings processed so far <= input listings; every step leaves each
\* counter unchanged or adds one to it, at most once for a listing; and the
\* generated count is the number of listings whose file has been written.
C21_CountersAreOrdered == [](C21_Ordered) /\ [][C21_Step]_vars

C21_Witness ==
    /\ opc = "done"
    /\ Len(doc) = 2
    /\ Len(properties) = 1
    /\ written = {1}
    /\ generated_properties = 1
    /\ sent_properties = 0

====
